---------------------------- MODULE Spec2Model ----------------------------
(***************************************************************************)
(* A model of PyBuilder's plugin resolution chain (pluginloader.py) and of *)
(* the Reactor's plugin bookkeeping and declarative graph assembly         *)
(* (reactor.py).                                                           *)
(*                                                                         *)
(* require_plugin is re-entrant: importing a plugin module runs its body,  *)
(* and the body may call require_plugin again (use_plugin).  The call      *)
(* stack is therefore part of the state, and a handler is cut into steps   *)
(* exactly at the points where foreign code (a module body) runs.          *)
(***************************************************************************)
EXTENDS Integers, Sequences, FiniteSets, TLC

VARIABLES
    plugins,        \* Reactor._plugins: the plugin registry, a list
    tasks,          \* execution_manager.register_task calls, in order
    actions,        \* execution_manager.register_action calls, in order
    initializers,   \* execution_manager.register_initializer calls, in order
    stack,          \* the require_plugin calls in progress, outermost first
    exc,            \* the exception propagating out of a nested call, if any
    last,           \* what the most recently completed require_plugin call did
    loaded,         \* identifiers whose load produced a module that was collected
    ncalls,         \* require_plugin calls made so far
    project_module, \* the project module prepare_build collects
    ncollects,      \* collect calls made on the project module so far
    raised,         \* what the last of them raised, if anything
    gate,           \* one _load_plugin call: its inputs and its outcome
    build           \* where prepare_build is, and what it has called

vars == <<plugins, tasks, actions, initializers, stack, exc, last, loaded,
          ncalls, project_module, ncollects, raised, gate, build>>

(***************************************************************************)
(* Bounds of the model.                                                    *)
(***************************************************************************)
MaxCalls == 3
MaxCandidates == 3
MaxCollects == 2
MaxVersion == 3

(***************************************************************************)
(* Plugin identifiers.  A Python string "pypi:ext" is kept as its protocol *)
(* prefix and the rest, so that startswith() and replace() are computed.   *)
(***************************************************************************)
PYPI_PLUGIN_PROTOCOL == "pypi:"
VCS_PLUGIN_PROTOCOL == "vcs:"

Identifiers ==
    { [protocol |-> "", name |-> "core"],
      [protocol |-> PYPI_PLUGIN_PROTOCOL, name |-> "ext"],
      [protocol |-> VCS_PLUGIN_PROTOCOL, name |-> "repo"] }

StartsWith(name, protocol) == name.protocol = protocol

(***************************************************************************)
(* Exceptions and return values.                                           *)
(* An exception carries the plugin name it was raised with and, to tell    *)
(* two exception objects apart, the require_plugin call and the position   *)
(* in the dispatch chain of the loader that raised it.                     *)
(***************************************************************************)
NoName == [protocol |-> "", name |-> ""]
NoException == [type |-> "none", plugin |-> NoName, call |-> 0, by |-> 0]
MissingPluginException(name, call, i) ==
    [type |-> "MissingPluginException", plugin |-> name, call |-> call, by |-> i]
IncompatiblePluginException(name, call, i) ==
    [type |-> "IncompatiblePluginException", plugin |-> name, call |-> call, by |-> i]
UnspecifiedPluginNameException(name, call, i) ==
    [type |-> "UnspecifiedPluginNameException", plugin |-> name, call |-> call, by |-> i]
\* whatever the execution module raises for a candidate it does not accept
RegistrationError == [type |-> "Exception", plugin |-> NoName, call |-> 0, by |-> 0]

Raised(e) == [kind |-> "raise", exc |-> e, value |-> <<>>]
Returned(v) == [kind |-> "return", exc |-> NoException, value |-> v]


(***************************************************************************)
(* Modules and their candidates (reactor.py, collect).                     *)
(*                                                                         *)
(* A candidate is one attribute of a module: a function object with its    *)
(* __name__ (dunder), an optional NAME_ATTRIBUTE (name_attr, "" when the   *)
(* attribute is absent), its role markers (present and truthy), and its    *)
(* DEPENDS_ATTRIBUTE / DEPENDENTS_ATTRIBUTE declarations.  valid says      *)
(* whether the execution module's constructors accept the candidate; they  *)
(* raise otherwise.                                                        *)
(*                                                                         *)
(* A declaration is a plain target (optional = FALSE, one target) or an    *)
(* optional(...) wrapper around one or more targets.  A target is a task   *)
(* name (a string) or a reference to a function object.                    *)
(***************************************************************************)
NameTarget(s) == [basestring |-> TRUE, value |-> s, name_attr |-> ""]
RefTarget(c) == [basestring |-> FALSE, value |-> c.dunder, name_attr |-> c.name_attr]

Plain(t) == [optional |-> FALSE, targets |-> <<t>>]
Optional(ts) == [optional |-> TRUE, targets |-> ts]

Candidate(dunder, name_attr, task, action, initializer, depends, dependents, valid) ==
    [dunder |-> dunder, name_attr |-> name_attr, task |-> task, action |-> action,
     initializer |-> initializer, depends |-> depends, dependents |-> dependents,
     valid |-> valid]

TaskDependency(depends_on, optional) == [depends_on |-> depends_on, optional |-> optional]

\* reactor.py 210-214: NAME_ATTRIBUTE if present, else __name__
normalize_candidate_name(candidate) ==
    IF candidate.name_attr # "" THEN candidate.name_attr ELSE candidate.value

CandidateName(c) == normalize_candidate_name(RefTarget(c))

\* reactor.py 218-219: a string is taken as it is, anything else is normalized
DependentKey(t) == IF t.basestring THEN t.value ELSE normalize_candidate_name(t)

\* Mutant: a later declaration for a name replaces the earlier ones.
OverwriteInjected(injected, name, dep) ==
    [k \in DOMAIN injected \cup {name} |->
        IF k = name THEN <<dep>> ELSE injected[k]]

\* reactor.py 220-222: injected_task_dependencies[name].append(...)
AppendInjected(injected, name, dep) ==
    IF name \in DOMAIN injected
    THEN [injected EXCEPT ![name] = Append(@, dep)]
    ELSE injected @@ (name :> <<dep>>)

\* reactor.py 216-222: add_task_dependency(names, depends_on, optional)
RECURSIVE add_task_dependency(_, _, _, _, _)
add_task_dependency(injected, names, i, depends_on, optional) ==
    IF i > Len(names) THEN injected
    ELSE add_task_dependency(
             AppendInjected(injected, DependentKey(names[i]),
                            TaskDependency(depends_on, optional)),
             names, i + 1, depends_on, optional)

\* reactor.py 232-237: the dependents of one candidate
RECURSIVE HarvestDependents(_, _, _, _)
HarvestDependents(injected, candidate, dependents, i) ==
    IF i > Len(dependents) THEN injected
    ELSE HarvestDependents(
             add_task_dependency(injected, dependents[i].targets, 1,
                                 RefTarget(candidate), dependents[i].optional),
             candidate, dependents, i + 1)

\* reactor.py 227: hasattr(candidate, TASK_ATTRIBUTE) and getattr(...)
IsTask(candidate) == candidate.task

\* reactor.py 224-237: pass 1 over dir(project_module)
RECURSIVE Pass1(_, _, _)
Pass1(injected, candidates, i) ==
    IF i > Len(candidates) THEN injected
    ELSE Pass1(IF IsTask(candidates[i])
               THEN HarvestDependents(injected, candidates[i],
                                      candidates[i].dependents, 1)
               ELSE injected,
               candidates, i + 1)

\* Mutant: an optional(...) wrapper gives one dependency, whatever it wraps.
WrapperAsOneDependency(d) == <<TaskDependency(d.targets[1], d.optional)>>

\* reactor.py 252-257: one declared dependency
DeclaredDependencies(d) ==
    IF d.optional
    THEN [k \in 1..Len(d.targets) |-> TaskDependency(d.targets[k], TRUE)]
    ELSE <<TaskDependency(d.targets[1], FALSE)>>

\* reactor.py 249-257: task_dependencies from DEPENDS_ATTRIBUTE
RECURSIVE ForwardDependencies(_, _)
ForwardDependencies(depends, i) ==
    IF i > Len(depends) THEN <<>>
    ELSE DeclaredDependencies(depends[i]) \o ForwardDependencies(depends, i + 1)

\* reactor.py 259-261: "Add injected"
InjectedFor(injected, name) ==
    IF name \in DOMAIN injected THEN injected[name] ELSE <<>>

\* Mutant: the injected dependencies put in front of the declared ones.
InjectedFirst(candidate, injected) ==
    InjectedFor(injected, CandidateName(candidate))
        \o ForwardDependencies(candidate.depends, 1)

\* reactor.py 249-261: the dependency list of the Task registered for a candidate
TaskDependencies(candidate, injected) ==
    ForwardDependencies(candidate.depends, 1)
        \o InjectedFor(injected, CandidateName(candidate))

Task(name, callable, dependencies) ==
    [name |-> name, callable |-> callable, dependencies |-> dependencies]
Action(name, callable) == [name |-> name, callable |-> callable]
Initializer(name, callable) == [name |-> name, callable |-> callable]

\* Mutant: the action marker looked at before the task marker.
ActionBeforeTask(candidate) ==
    IF candidate.action THEN "action"
    ELSE IF candidate.task THEN "task"
    ELSE IF candidate.initializer THEN "initializer"
    ELSE "none"

\* reactor.py 246, 267, 284: the role of a candidate, first match wins
Role(candidate) ==
    IF candidate.task THEN "task"
    ELSE IF candidate.action THEN "action"
    ELSE IF candidate.initializer THEN "initializer"
    ELSE "none"

\* The execution manager as the reactor sees it: the registration calls made.
Registrations(t, a, i) == [tasks |-> t, actions |-> a, initializers |-> i]

\* reactor.py 246-290: one candidate of pass 2
RegisterCandidate(em, candidate, injected) ==
    LET name == CandidateName(candidate)
        role == Role(candidate)
    IN  IF role = "none" THEN [em |-> em, raised |-> NoException]
        ELSE IF ~candidate.valid THEN [em |-> em, raised |-> RegistrationError]
        ELSE IF role = "task"
        THEN [em |-> [em EXCEPT !.tasks =
                         Append(@, Task(name, RefTarget(candidate),
                                        TaskDependencies(candidate, injected)))],
              raised |-> NoException]
        ELSE IF role = "action"
        THEN [em |-> [em EXCEPT !.actions =
                         Append(@, Action(name, RefTarget(candidate)))],
              raised |-> NoException]
        ELSE [em |-> [em EXCEPT !.initializers =
                         Append(@, Initializer(name, RefTarget(candidate)))],
              raised |-> NoException]

\* reactor.py 239-290: pass 2 over dir(project_module); stops at the first raise
RECURSIVE Pass2(_, _, _, _)
Pass2(em, candidates, i, injected) ==
    IF i > Len(candidates) THEN [em |-> em, raised |-> NoException]
    ELSE LET r == RegisterCandidate(em, candidates[i], injected)
         IN  IF r.raised # NoException THEN r
             ELSE Pass2(r.em, candidates, i + 1, injected)

\* A loader's result: an imported module (its candidates in dir() order) or None.
Module(candidates) == [kind |-> "module", candidates |-> candidates]
NoneModule == [kind |-> "None", candidates |-> <<>>]

\* dir(module): None has attributes too, none of them carrying a role marker.
Dir(module) ==
    IF module.kind = "None"
    THEN <<Candidate("__class__", "", FALSE, FALSE, FALSE, <<>>, <<>>, TRUE)>>
    ELSE module.candidates

\* Mutant: the harvested dependents are also given to the tasks that earlier
\* collect calls registered.
collect_into_registered(em, module) ==
    LET injected == Pass1(<<>>, Dir(module), 1)
        r == Pass2(em, Dir(module), 1, injected)
        earlier == Len(em.tasks)
        ts == [k \in 1..Len(r.em.tasks) |->
                  IF k <= earlier
                  THEN Task(r.em.tasks[k].name, r.em.tasks[k].callable,
                            r.em.tasks[k].dependencies
                                \o InjectedFor(injected, r.em.tasks[k].name))
                  ELSE r.em.tasks[k]]
    IN  [em |-> Registrations(ts, r.em.actions, r.em.initializers),
         raised |-> r.raised]

\* Mutant: the two passes merged into one, so that a task is registered with
\* the dependencies injected by the candidates listed before it only.
RECURSIVE OnePass(_, _, _, _)
OnePass(em, candidates, i, injected) ==
    IF i > Len(candidates) THEN [em |-> em, raised |-> NoException]
    ELSE LET seen == IF IsTask(candidates[i])
                     THEN HarvestDependents(injected, candidates[i],
                                            candidates[i].dependents, 1)
                     ELSE injected
             r == RegisterCandidate(em, candidates[i], seen)
         IN  IF r.raised # NoException THEN r
             ELSE OnePass(r.em, candidates, i + 1, seen)

collect_in_one_pass(em, module) == OnePass(em, Dir(module), 1, <<>>)

\* reactor.py 207-290: collect_tasks_and_actions_and_initializers
collect_tasks_and_actions_and_initializers(em, module) ==
    Pass2(em, Dir(module), 1, Pass1(<<>>, Dir(module), 1))

(***************************************************************************)
(* The plugin modules an import may produce.                               *)
(***************************************************************************)
SimpleTask(n, valid) == Candidate(n, "", TRUE, FALSE, FALSE, <<>>, <<>>, valid)

\* a task with a dependents declaration
Producer(n, dependents) == [SimpleTask(n, TRUE) EXCEPT !.dependents = dependents]

\* Two plugins whose tasks name, as dependents, a task of the other plugin;
\* the second has a candidate the execution manager refuses.
PluginModules ==
    { Module(<<Producer("compile", <<Plain(NameTarget("package"))>>)>>),
      Module(<<Producer("package", <<Optional(<<NameTarget("compile")>>)>>),
               SimpleTask("publish", FALSE)>>) }

(***************************************************************************)
(* The plugin registry (a Python list).                                    *)
(***************************************************************************)
Range(s) == {s[k] : k \in 1..Len(s)}

\* list.remove(x): drops the first occurrence of x
Remove(s, x) ==
    IF \E k \in 1..Len(s) : s[k] = x
    THEN LET first == CHOOSE k \in 1..Len(s) :
                          s[k] = x /\ \A j \in 1..(k - 1) : s[j] # x
         IN  [k \in 1..(Len(s) - 1) |-> IF k < first THEN s[k] ELSE s[k + 1]]
    ELSE s

IsPrefix(s, t) == Len(s) <= Len(t) /\ \A k \in 1..Len(s) : s[k] = t[k]

\* Mutant: only the identifiers whose load has ended count as registered.
NotYetLoaded(registry, plugin) == plugin \notin loaded

\* Mutant: the membership test is left out.
AlwaysLoad(registry, plugin) == TRUE

\* reactor.py 72: if plugin not in self._plugins
NotRegistered(registry, plugin) == plugin \notin Range(registry)

(***************************************************************************)
(* Reactor.__init__ (reactor.py 60-65): the default dispatch chain.        *)
(***************************************************************************)
\* Mutant: the chain with the Downloading loader in front.
DownloadFirst ==
    <<"DownloadingPluginLoader", "BuiltinPluginLoader", "ThirdPartyPluginLoader">>

Loaders == <<"BuiltinPluginLoader", "ThirdPartyPluginLoader", "DownloadingPluginLoader">>

\* Mutant: the dispatch loop swallows every exception.
DispatchCatchesAll(e) == TRUE

\* pluginloader.py 104: except MissingPluginException
DispatchCatches(e) == e.type = "MissingPluginException"

\* Mutant: the loop skips a loader after a failure.
SkipLoader(idx) == idx + 2

\* pluginloader.py 101: the loop goes on with the next loader
NextLoader(idx) == idx + 1

\* Mutant: only the first problem is kept.
KeepFirstProblem(last_problem, e) ==
    IF last_problem = NoException THEN e ELSE last_problem

\* pluginloader.py 105: last_problem = e
RememberProblem(last_problem, e) == e

\* pluginloader.py 106: raise last_problem
RaisedWhenExhausted(last_problem) == last_problem

\* pluginloader.py 70-72: vcs: without a module name
NameUnspecified(name, plugin_module_name) ==
    StartsWith(name, VCS_PLUGIN_PROTOCOL) /\ ~plugin_module_name

\* pluginloader.py 110: neither pypi: nor vcs:
InstallUnsupported(name) ==
    ~StartsWith(name, PYPI_PLUGIN_PROTOCOL) /\ ~StartsWith(name, VCS_PLUGIN_PROTOCOL)

\* pluginloader.py 109-132: _install_external_plugin, given pip's exit status
InstallExternalPlugin(name, call, i, result) ==
    IF InstallUnsupported(name) \/ result # 0
    THEN Raised(MissingPluginException(name, call, i))
    ELSE Returned(<<>>)

\* pluginloader.py 85-90: what DownloadingPluginLoader does with a failed install
OnInstallFailure(e) == Returned(NoneModule)

(***************************************************************************)
(* Versions and requirements.  A version is a number of 1..MaxVersion; the *)
(* pyb_version attribute of a plugin module is absent, empty, or one       *)
(* specifier clause, which SpecifierSet parses and contains() evaluates.   *)
(***************************************************************************)
Versions == 1..MaxVersion

NoAttribute == [kind |-> "absent", op |-> "", version |-> 0]
EmptyRequirement == [kind |-> "empty", op |-> "", version |-> 0]
Specifier(op, version) == [kind |-> "specifier", op |-> op, version |-> version]

Requirements ==
    {NoAttribute, EmptyRequirement}
        \cup { Specifier(op, v) : op \in {"==", ">=", "<"}, v \in Versions }

\* SpecifierSet(pyb_version, True).contains(version)
Contains(pyb_version, version) ==
    CASE pyb_version.op = "==" -> version = pyb_version.version
      [] pyb_version.op = ">=" -> version >= pyb_version.version
      [] pyb_version.op = "<"  -> version < pyb_version.version

\* pluginloader.py 147: hasattr(plugin_module, "pyb_version") and plugin_module.pyb_version
HasRequirement(pyb_version) == pyb_version.kind = "specifier"

\* pluginloader.py 146-150: TRUE when _check_plugin_version returns, FALSE
\* when it raises IncompatiblePluginException
check_plugin_version(pyb_version, version) ==
    IF HasRequirement(pyb_version)
    THEN Contains(pyb_version, version)
    ELSE TRUE

\* Mutant: the except clause of _load_plugin also takes the version error.
IncompatibleAsMissing(name, call, i, import_error, pyb_version, version, module) ==
    IF import_error \/ ~check_plugin_version(pyb_version, version)
    THEN Raised(MissingPluginException(name, call, i))
    ELSE Returned(module)

\* pluginloader.py 135-143: the outcome of _load_plugin once the module body
\* has run: ImportError becomes MissingPluginException, a version
\* requirement that excludes PYB_VERSION raises IncompatiblePluginException
LoadPluginOutcome(name, call, i, import_error, pyb_version, version, module) ==
    IF import_error THEN Raised(MissingPluginException(name, call, i))
    ELSE IF ~check_plugin_version(pyb_version, version)
    THEN Raised(IncompatiblePluginException(name, call, i))
    ELSE Returned(module)

(***************************************************************************)
(* Call frames of require_plugin.                                          *)
(*   pc = "load"    the dispatch loop is about to try loader idx           *)
(*   pc = "import"  loader idx is inside __import__: the module body runs  *)
(*   pc = "collect" load_plugin has returned module                        *)
(* invoked, imports and installs record what the loaders did; pre and      *)
(* pre_em are the registry and the registrations when the call began;      *)
(* nested are the identifiers nested calls loaded and kept; call numbers   *)
(* the call; loads, kept for the outermost call, are the identifiers whose *)
(* load began inside it, in order.                                         *)
(***************************************************************************)
Frame(plugin, plugin_module_name, registry, em) ==
    [plugin |-> plugin, plugin_module_name |-> plugin_module_name,
     call |-> ncalls + 1,
     pc |-> "load", idx |-> 1, last_problem |-> NoException,
     module |-> NoneModule, invoked |-> <<>>, imports |-> <<>>,
     installs |-> <<>>, pre |-> registry, pre_em |-> em, nested |-> {},
     loads |-> <<>>]

Top == stack[Len(stack)]
Pop(s) == SubSeq(s, 1, Len(s) - 1)
ReplaceTop(s, f) == [s EXCEPT ![Len(s)] = f]
EM == Registrations(tasks, actions, initializers)

NoCall ==
    [plugin |-> NoName, plugin_module_name |-> FALSE,
     noop |-> FALSE, outcome |-> NoException, module |-> NoneModule,
     invoked |-> <<>>, imports |-> <<>>, installs |-> <<>>,
     pre |-> <<>>, post |-> <<>>, pre_em |-> Registrations(<<>>, <<>>, <<>>),
     post_em |-> Registrations(<<>>, <<>>, <<>>), nested |-> {}, call |-> 0]

\* What a completed call did, as its caller can observe it.
Summary(f, outcome, registry, em) ==
    [plugin |-> f.plugin, plugin_module_name |-> f.plugin_module_name,
     noop |-> FALSE, outcome |-> outcome, module |-> f.module,
     invoked |-> f.invoked, imports |-> f.imports, installs |-> f.installs,
     pre |-> f.pre, post |-> registry, pre_em |-> f.pre_em, post_em |-> em,
     nested |-> f.nested, call |-> f.call]

(***************************************************************************)
(* Reactor.require_plugin (reactor.py 71-78).                              *)
(***************************************************************************)
\* Mutant: the rollback restores the registry of before the call.
RollbackToBefore(registry, plugin) ==
    IF \E k \in 1..Len(registry) : registry[k] = plugin
    THEN SubSeq(registry, 1, (CHOOSE k \in 1..Len(registry) : registry[k] = plugin) - 1)
    ELSE registry

\* Mutant: the rollback pops the registry instead of removing the identifier.
RollbackLast(registry, plugin) == SubSeq(registry, 1, Len(registry) - 1)

\* Mutant: the except clause re-raises without removing the identifier.
NoRollback(registry, plugin) == registry

\* reactor.py 77: self._plugins.remove(plugin)
Rollback(registry, plugin) == Remove(registry, plugin)

(***************************************************************************)
(* Reactor.prepare_build (reactor.py 91-118).                              *)
(*   pc = "none"       prepare_build has not been called                   *)
(*   pc = "verify"     entered, before verify_project_directory            *)
(*   pc = "load"       load_project_module is running the build descriptor *)
(*   pc = "loaded"     the project module is there                         *)
(*   pc = "collected"  its contributions have been collected to the end    *)
(*   pc = "resolved"   resolve_dependencies has been called                *)
(*   pc = "raised"     prepare_build has raised                            *)
(* failed tells that an acquisition begun by the build descriptor ended    *)
(* without a plugin module: the call raised, or its loader returned None.  *)
(***************************************************************************)
Build(pc, failed, collect_called, resolve_called) ==
    [pc |-> pc, failed |-> failed, collect_called |-> collect_called,
     resolve_called |-> resolve_called]

NoBuild == Build("none", FALSE, FALSE, FALSE)

\* The end of a call whose frame is f: a normal return (outcome = NoException)
\* or the except clause of lines 76-78, which rolls back and re-raises.  The
\* caller is the frame below, or the build descriptor when there is none.
Complete(f, outcome, em) ==
    LET registry == IF outcome = NoException THEN plugins
                    ELSE Rollback(plugins, f.plugin)
        kept == IF outcome = NoException THEN f.nested \cup {f.plugin}
                ELSE f.nested
        rest == Pop(stack)
    IN  /\ plugins' = registry
        /\ stack' = IF rest = <<>> THEN rest
                    ELSE ReplaceTop(rest, [rest[Len(rest)] EXCEPT
                                              !.nested = @ \cup kept])
        /\ exc' = IF rest = <<>> THEN NoException ELSE outcome
        /\ last' = Summary(f, outcome, registry, em)
        /\ tasks' = em.tasks
        /\ actions' = em.actions
        /\ initializers' = em.initializers
        /\ loaded' = IF outcome = NoException /\ f.module.kind = "module"
                     THEN loaded \cup {f.plugin} ELSE loaded
        /\ build' = IF build.pc = "load"
                    THEN [build EXCEPT
                             !.failed = @ \/ outcome # NoException
                                          \/ f.module.kind = "None",
                             !.pc = IF rest = <<>> /\ outcome # NoException
                                    THEN "raised" ELSE @]
                    ELSE build

\* reactor.py 71-75: the call itself, from the build descriptor (no call in
\* progress) or from the body of the plugin module being imported.
require_plugin(plugin, plugin_module_name) ==
    /\ exc = NoException
    /\ ncalls < MaxCalls
    /\ IF stack = <<>> THEN build.pc \in {"none", "load"} ELSE Top.pc = "import"
    /\ ncalls' = ncalls + 1
    /\ IF NotRegistered(plugins, plugin)
       THEN /\ plugins' = Append(plugins, plugin)
            /\ stack' = Append(IF stack = <<>> THEN stack
                               ELSE [stack EXCEPT ![1].loads = Append(@, plugin)],
                               Frame(plugin, plugin_module_name, plugins, EM))
            /\ last' = last
       ELSE /\ plugins' = plugins
            /\ stack' = stack
            /\ last' = [Summary(Frame(plugin, plugin_module_name, plugins, EM),
                                NoException, plugins, EM) EXCEPT !.noop = TRUE]
    /\ UNCHANGED <<tasks, actions, initializers, exc, loaded, project_module, ncollects, raised, gate, build>>

(***************************************************************************)
(* DispatchingPluginLoader.load_plugin (pluginloader.py 99-106) and the    *)
(* three loaders it tries.                                                 *)
(***************************************************************************)
\* Loader f.idx has ended with r, a return value or an exception
\* (pluginloader.py 102-105): a return ends load_plugin, a
\* MissingPluginException moves on to the next loader, anything else leaves
\* load_plugin and import_plugin and reaches require_plugin's except clause.
StrategyEnds(f, r) ==
    LET g == [f EXCEPT !.invoked = Append(@, [loader |-> Loaders[f.idx], result |-> r])]
    IN  IF r.kind = "return"
        THEN /\ stack' = ReplaceTop(stack, [g EXCEPT !.pc = "collect", !.module = r.value])
             /\ exc' = NoException
             /\ UNCHANGED <<plugins, tasks, actions, initializers, last, loaded, build>>
        ELSE IF DispatchCatches(r.exc)
        THEN /\ stack' = ReplaceTop(stack, [g EXCEPT
                 !.pc = "load", !.idx = NextLoader(@),
                 !.last_problem = RememberProblem(@, r.exc)])
             /\ exc' = NoException
             /\ UNCHANGED <<plugins, tasks, actions, initializers, last, loaded, build>>
        ELSE Complete(g, r.exc, EM)

\* pluginloader.py 59 / 76 / 137: __import__ starts running the module body
EntersImport(f) ==
    /\ stack' = ReplaceTop(stack, [f EXCEPT !.pc = "import",
                                            !.imports = Append(@, Loaders[f.idx])])
    /\ UNCHANGED <<plugins, tasks, actions, initializers, exc, last, loaded, build>>

Loading(loader) ==
    /\ exc = NoException
    /\ stack # <<>>
    /\ Top.pc = "load"
    /\ Top.idx <= Len(Loaders)
    /\ Loaders[Top.idx] = loader

\* pluginloader.py 65-76: ThirdPartyPluginLoader.load_plugin up to the import
ThirdPartyLoadPlugin(f) ==
    IF NameUnspecified(f.plugin, f.plugin_module_name)
    THEN StrategyEnds(f, Raised(UnspecifiedPluginNameException(f.plugin, f.call, f.idx)))
    ELSE EntersImport(f)

\* pluginloader.py 55-59
BuiltinLoad ==
    /\ Loading("BuiltinPluginLoader")
    /\ EntersImport(Top)
    /\ UNCHANGED <<ncalls, project_module, ncollects, raised, gate>>

\* pluginloader.py 65-76
ThirdPartyLoad ==
    /\ Loading("ThirdPartyPluginLoader")
    /\ ThirdPartyLoadPlugin(Top)
    /\ UNCHANGED <<ncalls, project_module, ncollects, raised, gate>>

\* pluginloader.py 82-91; result is pip's exit status (124-128), which is
\* read only when pip is run
DownloadingLoad ==
    /\ Loading("DownloadingPluginLoader")
    /\ \E result \in {0, 1} :
          LET installed == InstallExternalPlugin(Top.plugin, Top.call, Top.idx, result)
              f == IF InstallUnsupported(Top.plugin) THEN Top
                   ELSE [Top EXCEPT !.installs = Append(@, result)]
          IN  IF installed.kind = "raise"
              THEN StrategyEnds(f, OnInstallFailure(installed.exc))
              ELSE ThirdPartyLoadPlugin(f)
    /\ UNCHANGED <<ncalls, project_module, ncollects, raised, gate>>

\* pluginloader.py 106: every loader raised MissingPluginException
DispatchExhausted ==
    /\ exc = NoException
    /\ stack # <<>>
    /\ Top.pc = "load"
    /\ Top.idx > Len(Loaders)
    /\ Complete(Top, RaisedWhenExhausted(Top.last_problem), EM)
    /\ UNCHANGED <<ncalls, project_module, ncollects, raised, gate>>

\* pluginloader.py 135-143: the module body has run (or the module was not
\* found); what the import gives is the environment's choice
ImportEnds ==
    /\ exc = NoException
    /\ stack # <<>>
    /\ Top.pc = "import"
    /\ \E r \in { LoadPluginOutcome(Top.plugin, Top.call, Top.idx,
                                     import_error, pyb_version, version, module) :
                       import_error \in BOOLEAN, pyb_version \in Requirements,
                       version \in Versions, module \in PluginModules } :
          StrategyEnds(Top, r)
    /\ UNCHANGED <<ncalls, project_module, ncollects, raised, gate>>

\* A nested require_plugin raised inside the module body: the exception is
\* no ImportError, so it leaves _load_plugin (142) and the loader as it is.
NestedRaises ==
    /\ exc # NoException
    /\ stack # <<>>
    /\ StrategyEnds(Top, Raised(exc))
    /\ UNCHANGED <<ncalls, project_module, ncollects, raised, gate>>

\* reactor.py 205 and the return of 71-75, or the except clause of 76-78
CollectPlugin ==
    /\ exc = NoException
    /\ stack # <<>>
    /\ Top.pc = "collect"
    /\ LET r == collect_tasks_and_actions_and_initializers(EM, Top.module)
       IN  Complete(Top, r.raised, r.em)
    /\ UNCHANGED <<ncalls, project_module, ncollects, raised, gate>>

\* No _load_plugin call under observation.
NoGate == [state |-> "none"]

Init ==
    /\ plugins = <<>>
    /\ tasks = <<>>
    /\ actions = <<>>
    /\ initializers = <<>>
    /\ stack = <<>>
    /\ exc = NoException
    /\ last = NoCall
    /\ loaded = {}
    /\ ncalls = 0
    /\ project_module = Module(<<>>)
    /\ ncollects = 0
    /\ raised = NoException
    /\ gate = NoGate
    /\ build = NoBuild

\* A module name changes which module __import__ is asked for; the code
\* branches on it for vcs: identifiers only (pluginloader.py 70), and it is
\* drawn for those.
RequirePlugin ==
    \E plugin \in Identifiers, plugin_module_name \in BOOLEAN :
        /\ plugin_module_name => StartsWith(plugin, VCS_PLUGIN_PROTOCOL)
        /\ require_plugin(plugin, plugin_module_name)

Next ==
    \/ RequirePlugin
    \/ BuiltinLoad
    \/ ThirdPartyLoad
    \/ DownloadingLoad
    \/ DispatchExhausted
    \/ ImportEnds
    \/ NestedRaises
    \/ CollectPlugin

Spec == Init /\ [][Next]_vars

\* The steps the interpreter takes by itself once a call has begun: a loader
\* is tried, an import ends, an exception propagates, a module is collected.
\* Whether a module body calls require_plugin is up to the body.
Progress ==
    \/ BuiltinLoad
    \/ ThirdPartyLoad
    \/ DownloadingLoad
    \/ DispatchExhausted
    \/ ImportEnds
    \/ NestedRaises
    \/ CollectPlugin

FairSpec == Spec /\ WF_vars(Progress)

(***************************************************************************)
(* Reactor.prepare_build (reactor.py 116): the project module is collected *)
(* directly.  The project modules tried are all the modules of up to       *)
(* MaxCandidates candidates, in any dir() order, drawn from the functions  *)
(* below: a, b and c carry no NAME_ATTRIBUTE, x is named "b" by its        *)
(* NAME_ATTRIBUTE.                                                         *)
(***************************************************************************)
Function(dunder, name_attr) ==
    Candidate(dunder, name_attr, FALSE, FALSE, FALSE, <<>>, <<>>, TRUE)
Fa == Function("a", "")
Fb == Function("b", "")
Fc == Function("c", "")
Fx == Function("x", "b")

TaskOf(f, depends, dependents) ==
    [f EXCEPT !.task = TRUE, !.depends = depends, !.dependents = dependents]

Candidates ==
    { \* producers: a task that names the tasks that are to depend on it
      TaskOf(Fa, <<>>, <<Plain(NameTarget("b"))>>),
      TaskOf(Fa, <<>>, <<Plain(RefTarget(Fx))>>),
      TaskOf(Fa, <<>>, <<Optional(<<RefTarget(Fb), NameTarget("c")>>)>>),
      TaskOf(Fc, <<Optional(<<NameTarget("a")>>)>>,
                 <<Optional(<<RefTarget(Fb)>>), Plain(NameTarget("d"))>>),
      \* consumers
      TaskOf(Fb, <<>>, <<>>),
      TaskOf(Fb, <<Plain(RefTarget(Fc)), Optional(<<NameTarget("d"), RefTarget(Fa)>>)>>, <<>>),
      TaskOf(Fx, <<>>, <<>>),
      [TaskOf(Fb, <<>>, <<>>) EXCEPT !.valid = FALSE],
      \* other roles, several markers, no marker
      [TaskOf(Fb, <<>>, <<>>) EXCEPT !.action = TRUE],
      [Fc EXCEPT !.action = TRUE, !.initializer = TRUE],
      [Fc EXCEPT !.initializer = TRUE],
      [Fa EXCEPT !.dependents = <<Plain(NameTarget("b"))>>] }

SeqsUpTo(S, n) == UNION { [1..k -> S] : k \in 0..n }

ProjectModules == { Module(candidates) : candidates \in SeqsUpTo(Candidates, MaxCandidates) }

\* reactor.py 116: self.collect_tasks_and_actions_and_initializers(self.project_module)
CollectProject ==
    /\ ncollects < MaxCollects
    /\ LET r == collect_tasks_and_actions_and_initializers(EM, project_module)
       IN  /\ tasks' = r.em.tasks
           /\ actions' = r.em.actions
           /\ initializers' = r.em.initializers
           /\ raised' = r.raised
    /\ ncollects' = ncollects + 1
    /\ UNCHANGED <<plugins, stack, exc, last, loaded, ncalls, project_module, gate, build>>

CollectInit ==
    /\ plugins = <<>>
    /\ tasks = <<>>
    /\ actions = <<>>
    /\ initializers = <<>>
    /\ stack = <<>>
    /\ exc = NoException
    /\ last = NoCall
    /\ loaded = {}
    /\ ncalls = 0
    /\ project_module \in ProjectModules
    /\ ncollects = 0
    /\ raised = NoException
    /\ gate = NoGate
    /\ build = NoBuild

CollectNext == CollectProject

CollectSpec == CollectInit /\ [][CollectNext]_vars

(***************************************************************************)
(* prepare_build: the build descriptor runs, requiring plugins as it goes; *)
(* then the project module is collected and the dependencies resolved.     *)
(***************************************************************************)
\* reactor.py 102-103: verify_project_directory raises or returns
VerifyProjectDirectory ==
    /\ build.pc = "verify"
    /\ \E ok \in BOOLEAN :
          build' = [build EXCEPT !.pc = IF ok THEN "load" ELSE "raised"]
    /\ UNCHANGED <<plugins, tasks, actions, initializers, stack, exc, last,
                   loaded, ncalls, project_module, ncollects, raised, gate>>

\* reactor.py 109 and 308-314: load_source returns the module once the
\* descriptor has run to its end, or raises
LoadProjectModule ==
    /\ build.pc = "load"
    /\ stack = <<>>
    /\ \E ok \in BOOLEAN, module \in PluginModules :
          IF ok
          THEN /\ project_module' = module
               /\ build' = [build EXCEPT !.pc = "loaded"]
          ELSE /\ project_module' = project_module
               /\ build' = [build EXCEPT !.pc = "raised"]
    /\ UNCHANGED <<plugins, tasks, actions, initializers, stack, exc, last,
                   loaded, ncalls, ncollects, raised, gate>>

\* reactor.py 116
CollectProjectModule ==
    /\ build.pc = "loaded"
    /\ LET r == collect_tasks_and_actions_and_initializers(EM, project_module)
       IN  /\ tasks' = r.em.tasks
           /\ actions' = r.em.actions
           /\ initializers' = r.em.initializers
           /\ raised' = r.raised
           /\ build' = [build EXCEPT
                  !.pc = IF r.raised = NoException THEN "collected" ELSE "raised",
                  !.collect_called = TRUE]
    /\ UNCHANGED <<plugins, stack, exc, last, loaded, ncalls, project_module,
                   ncollects, gate>>

\* reactor.py 118
ResolveDependencies ==
    /\ build.pc = "collected"
    /\ build' = [build EXCEPT !.pc = "resolved", !.resolve_called = TRUE]
    /\ UNCHANGED <<plugins, tasks, actions, initializers, stack, exc, last,
                   loaded, ncalls, project_module, ncollects, raised, gate>>

BuildInit ==
    /\ plugins = <<>>
    /\ tasks = <<>>
    /\ actions = <<>>
    /\ initializers = <<>>
    /\ stack = <<>>
    /\ exc = NoException
    /\ last = NoCall
    /\ loaded = {}
    /\ ncalls = 0
    /\ project_module = Module(<<>>)
    /\ ncollects = 0
    /\ raised = NoException
    /\ gate = NoGate
    /\ build = Build("verify", FALSE, FALSE, FALSE)

BuildNext ==
    \/ VerifyProjectDirectory
    \/ RequirePlugin
    \/ BuiltinLoad
    \/ ThirdPartyLoad
    \/ DownloadingLoad
    \/ DispatchExhausted
    \/ ImportEnds
    \/ NestedRaises
    \/ CollectPlugin
    \/ LoadProjectModule
    \/ CollectProjectModule
    \/ ResolveDependencies

BuildSpec == BuildInit /\ [][BuildNext]_vars

(***************************************************************************)
(* _load_plugin on its own: a plugin module that imports or not, with any  *)
(* pyb_version attribute, under any version of the host.                   *)
(***************************************************************************)
Pending == [kind |-> "pending", exc |-> NoException, value |-> <<>>]

Gate(plugin_name, import_error, pyb_version, version, module, outcome) ==
    [state |-> "call", plugin_name |-> plugin_name, import_error |-> import_error,
     pyb_version |-> pyb_version, version |-> version, module |-> module,
     outcome |-> outcome]

\* pluginloader.py 135-143: _load_plugin(plugin_module_name, plugin_name)
LoadPlugin ==
    /\ gate # NoGate
    /\ gate.outcome = Pending
    /\ gate' = [gate EXCEPT !.outcome =
                    LoadPluginOutcome(gate.plugin_name, 0, 0, gate.import_error,
                                      gate.pyb_version, gate.version, gate.module)]
    /\ UNCHANGED <<plugins, tasks, actions, initializers, stack, exc, last,
                   loaded, ncalls, project_module, ncollects, raised, build>>

VersionInit ==
    /\ plugins = <<>>
    /\ tasks = <<>>
    /\ actions = <<>>
    /\ initializers = <<>>
    /\ stack = <<>>
    /\ exc = NoException
    /\ last = NoCall
    /\ loaded = {}
    /\ ncalls = 0
    /\ project_module = Module(<<>>)
    /\ ncollects = 0
    /\ raised = NoException
    /\ \E plugin_name \in Identifiers, import_error \in BOOLEAN,
          pyb_version \in Requirements, version \in Versions,
          module \in PluginModules :
          gate = Gate(plugin_name, import_error, pyb_version, version, module, Pending)
    /\ build = NoBuild

VersionNext == LoadPlugin

VersionSpec == VersionInit /\ [][VersionNext]_vars

(***************************************************************************)
(* Properties.                                                             *)
(***************************************************************************)
Completed == last # NoCall
Raising == Completed /\ last.outcome # NoException
IsMissing(result) ==
    result.kind = "raise" /\ result.exc.type = "MissingPluginException"
FinalResult(invoked) == invoked[Len(invoked)].result

\* C1: whenever no require_plugin call is in progress, every identifier in the
\* registry is one for which the loader chain produced an imported plugin
\* module whose contributions were collected to the end.
C1_RegistryOnlyLoaded ==
    stack = <<>> => \A k \in 1..Len(plugins) : plugins[k] \in loaded

\* C2 as stated: when a call raises, the registry after the call is exactly
\* the registry before the call.
C2_RegistryAsBefore ==
    Raising => last.post = last.pre

\* C2 as amended: when a call raises, it raises the error that the load or
\* the collection ended with, the failing identifier is gone from the
\* registry, the identifiers present before the call are still there in the
\* same order and at the front, and whatever follows them was loaded and
\* kept by a nested call that returned normally.
C2_RollbackOfFailingPlugin ==
    Raising =>
        /\ Len(last.invoked) > 0
        /\ last.outcome = IF FinalResult(last.invoked).kind = "raise"
                          THEN FinalResult(last.invoked).exc
                          ELSE RegistrationError
        /\ last.plugin \notin Range(last.post)
        /\ IsPrefix(last.pre, last.post)
        /\ \A k \in (Len(last.pre) + 1)..Len(last.post) : last.post[k] \in last.nested
        /\ (last.nested = {} => last.post = last.pre)

C2_Witness ==
    /\ Raising
    /\ last.nested # {}
    /\ last.post # last.pre

C2_WitnessPlain ==
    /\ Raising
    /\ last.nested = {}
    /\ last.pre # <<>>

\* C3: a call for an identifier already in the registry invokes no loader,
\* registers nothing with the execution manager and leaves the registry as
\* it was.
C3_RegisteredIsNoOp ==
    (Completed /\ last.plugin \in Range(last.pre)) =>
        /\ last.invoked = <<>>
        /\ last.imports = <<>>
        /\ last.installs = <<>>
        /\ last.post_em = last.pre_em
        /\ last.post = last.pre

C3_Witness ==
    /\ Completed
    /\ last.noop
    /\ last.plugin \in Range(last.pre)
    /\ stack # <<>>

\* C4: whenever a call raises, the tasks, actions and initializers registered
\* with the execution manager are exactly those registered before the call.
C4_NoPartialRegistration ==
    Raising => last.post_em = last.pre_em

\* C5: when load_plugin returns, the loaders were tried once each in list
\* order, every loader before the last one tried raised
\* MissingPluginException, and the value returned is the value the last one
\* tried returned; no loader after it was invoked.
DispatchReturned(invoked, module) ==
    /\ Len(invoked) \in 1..Len(Loaders)
    /\ \A k \in 1..Len(invoked) : invoked[k].loader = Loaders[k]
    /\ \A k \in 1..(Len(invoked) - 1) : IsMissing(invoked[k].result)
    /\ FinalResult(invoked) = Returned(module)

C5_FirstNonMissingResult ==
    /\ \A d \in 1..Len(stack) :
          stack[d].pc = "collect" => DispatchReturned(stack[d].invoked, stack[d].module)
    /\ (Completed /\ ~last.noop /\ Len(last.invoked) > 0
           /\ FinalResult(last.invoked).kind = "return")
          => DispatchReturned(last.invoked, last.module)

C5_Witness ==
    /\ stack # <<>>
    /\ Top.pc = "collect"
    /\ Len(Top.invoked) = 2
    /\ IsMissing(Top.invoked[1].result)
    /\ Top.invoked[2].result = Returned(Top.module)
    /\ Top.module.kind = "module"

\* C6: an exception other than MissingPluginException raised by a loader
\* ends load_plugin at once: it is the last thing the dispatch chain did and
\* it is what the call raises; no call in progress has such a result behind it.
C6_OtherErrorsPropagate ==
    /\ \A d \in 1..Len(stack) : \A k \in 1..Len(stack[d].invoked) :
          stack[d].invoked[k].result.kind = "raise"
              => IsMissing(stack[d].invoked[k].result)
    /\ Completed =>
          \A k \in 1..Len(last.invoked) :
              (last.invoked[k].result.kind = "raise"
                   /\ ~IsMissing(last.invoked[k].result))
                  => /\ k = Len(last.invoked)
                     /\ last.outcome = last.invoked[k].result.exc

C6_Witness ==
    /\ Raising
    /\ last.outcome.type = "IncompatiblePluginException"
    /\ Len(last.invoked) = 1
    /\ last.plugin.protocol = ""

C6_WitnessUnspecified ==
    /\ Raising
    /\ last.outcome.type = "UnspecifiedPluginNameException"
    /\ Len(last.invoked) = 2

\* C7: if every loader of the chain raised MissingPluginException, each was
\* invoked once, in order, and the call raises the exception of the last one.
AllMissing(invoked) ==
    /\ Len(invoked) = Len(Loaders)
    /\ \A k \in 1..Len(invoked) : IsMissing(invoked[k].result)

C7_LastMissingRaised ==
    (Completed /\ AllMissing(last.invoked)) =>
        /\ \A k \in 1..Len(Loaders) : last.invoked[k].loader = Loaders[k]
        /\ last.outcome = last.invoked[Len(Loaders)].result.exc
        /\ last.outcome # last.invoked[1].result.exc

C7_Witness ==
    /\ Completed
    /\ AllMissing(last.invoked)
    /\ last.outcome = MissingPluginException(last.plugin, last.call, Len(Loaders))

\* C8: when the installer exits with a nonzero status, the call raises
\* MissingPluginException.
C8_InstallFailureIsMissing ==
    (Completed /\ \E k \in 1..Len(last.installs) : last.installs[k] # 0)
        => last.outcome.type = "MissingPluginException"

\* C9: a vcs: identifier without a module name ends in
\* UnspecifiedPluginNameException, and no loader attempts an import for it.
C9_NoImportForUnnamedVcs ==
    /\ \A d \in 1..Len(stack) :
          NameUnspecified(stack[d].plugin, stack[d].plugin_module_name)
              => stack[d].imports = <<>>
    /\ (Completed /\ ~last.noop
           /\ NameUnspecified(last.plugin, last.plugin_module_name))
          => /\ last.imports = <<>>
             /\ last.outcome.type = "UnspecifiedPluginNameException"

\* C10: if a task A names B among its dependents, by B's name or by
\* reference to B, and the task B declares no dependency on A, then every
\* Task registered for B has a dependency pointing at A, and B is registered
\* whenever the collect call ran to its end: whichever of the two dir() lists
\* first.
Targets(decls) ==
    { decls[k].targets[n] : <<k, n>> \in
        { <<k, n>> \in (1..Len(decls)) \X (1..2) : n <= Len(decls[k].targets) } }

Designates(t, candidate) ==
    \/ t = NameTarget(CandidateName(candidate))
    \/ t = RefTarget(candidate)

ReverseDeclared(A, B) ==
    /\ A.task
    /\ B.task
    /\ \E t \in Targets(A.dependents) : Designates(t, B)
    /\ ~\E t \in Targets(B.depends) : Designates(t, A)

TasksFor(candidate) ==
    { k \in 1..Len(tasks) : /\ tasks[k].callable = RefTarget(candidate)
                            /\ tasks[k].name = CandidateName(candidate) }

PointsAt(task, A) ==
    \E n \in 1..Len(task.dependencies) : task.dependencies[n].depends_on = RefTarget(A)

C10_ReverseInjection ==
    ncollects > 0 =>
        \A i, j \in 1..Len(project_module.candidates) :
            LET A == project_module.candidates[i]
                B == project_module.candidates[j]
            IN  ReverseDeclared(A, B) =>
                    /\ \A k \in TasksFor(B) : PointsAt(tasks[k], A)
                    /\ raised = NoException => TasksFor(B) # {}

\* B is listed before A, and A names B by reference to a function whose task
\* name comes from its NAME_ATTRIBUTE.
C10_Witness ==
    /\ ncollects > 0
    /\ \E i, j \in 1..Len(project_module.candidates) :
          /\ j < i
          /\ ReverseDeclared(project_module.candidates[i], project_module.candidates[j])
          /\ project_module.candidates[j] = TaskOf(Fx, <<>>, <<>>)
          /\ TasksFor(project_module.candidates[j]) # {}

C10_WitnessByName ==
    /\ ncollects > 0
    /\ \E i, j \in 1..Len(project_module.candidates) :
          /\ i < j
          /\ ReverseDeclared(project_module.candidates[i], project_module.candidates[j])
          /\ NameTarget("b") \in Targets(project_module.candidates[i].dependents)
          /\ TasksFor(project_module.candidates[j]) # {}

(***************************************************************************)
(* The registrations of a collect call, told from its module: the          *)
(* candidates carrying a marker are registered in dir() order, up to the   *)
(* first one that is not accepted.  The project module is collected        *)
(* ncollects times, so the n-th task registered comes from the candidate   *)
(* at TaskPosition(n).                                                     *)
(***************************************************************************)
Marked(c) == c.task \/ c.action \/ c.initializer

Reached(candidates, p) == \A q \in 1..p : Marked(candidates[q]) => candidates[q].valid

TaskPositions(candidates) ==
    { p \in 1..Len(candidates) : candidates[p].task /\ Reached(candidates, p) }

NthOf(S, n) == CHOOSE p \in S : Cardinality({ q \in S : q < p }) = n - 1

TaskPosition(n) ==
    LET S == TaskPositions(project_module.candidates)
    IN  NthOf(S, ((n - 1) % Cardinality(S)) + 1)

KeyedTo(t, name) ==
    IF t.basestring THEN t.value = name
    ELSE (IF t.name_attr # "" THEN t.name_attr ELSE t.value) = name

\* the targets a task declares in DEPENDS_ATTRIBUTE, wrapped (o) or not
ForwardTargets(c, o) ==
    { km \in (1..Len(c.depends)) \X (1..2) :
        /\ c.depends[km[1]].optional = o
        /\ km[2] <= Len(c.depends[km[1]].targets) }

\* the dependents declarations of the module's tasks that name the task `name`
ReverseSources(candidates, name, o) ==
    { ikm \in (1..Len(candidates)) \X (1..2) \X (1..2) :
        /\ candidates[ikm[1]].task
        /\ ikm[2] <= Len(candidates[ikm[1]].dependents)
        /\ candidates[ikm[1]].dependents[ikm[2]].optional = o
        /\ ikm[3] <= Len(candidates[ikm[1]].dependents[ikm[2]].targets)
        /\ KeyedTo(candidates[ikm[1]].dependents[ikm[2]].targets[ikm[3]], name) }

Flagged(deps, o) == { d \in 1..Len(deps) : deps[d].optional = o }

\* C11: in every registered Task, each target inside an optional(...)
\* wrapper, of the task's own depends or of a producer's dependents naming
\* it, wrapped alone or in a list, is one TaskDependency with optional = TRUE,
\* and each target declared without a wrapper is one with optional = FALSE;
\* the list holds nothing else.
C11_OneDependencyPerTarget ==
    \A n \in 1..Len(tasks) :
        LET candidates == project_module.candidates
            c == candidates[TaskPosition(n)]
            deps == tasks[n].dependencies
        IN  \A o \in BOOLEAN :
                /\ Cardinality(Flagged(deps, o))
                       = Cardinality(ForwardTargets(c, o))
                         + Cardinality(ReverseSources(candidates, tasks[n].name, o))
                /\ \A km \in ForwardTargets(c, o) : \E d \in Flagged(deps, o) :
                       deps[d].depends_on = c.depends[km[1]].targets[km[2]]
                /\ \A ikm \in ReverseSources(candidates, tasks[n].name, o) :
                       \E d \in Flagged(deps, o) :
                           deps[d].depends_on = RefTarget(candidates[ikm[1]])

\* a task with a wrapped list and a plain target in its depends, and with a
\* wrapped single target of another task's dependents injected
C11_Witness ==
    /\ ncollects > 0
    /\ \E n \in 1..Len(tasks) :
          LET candidates == project_module.candidates
              c == candidates[TaskPosition(n)]
          IN  /\ \E k \in 1..Len(c.depends) :
                    c.depends[k].optional /\ Len(c.depends[k].targets) = 2
              /\ ForwardTargets(c, FALSE) # {}
              /\ \E ikm \in ReverseSources(candidates, tasks[n].name, TRUE) :
                    Len(candidates[ikm[1]].dependents[ikm[2]].targets) = 1
              /\ Cardinality(Flagged(tasks[n].dependencies, TRUE)) = 3

\* declaration order: position in the list, then position inside a wrapper;
\* for dependents, the producer's position in dir() comes first
Before(x, y) ==
    \E j \in 1..Len(x) : x[j] < y[j] /\ \A h \in 1..(j - 1) : x[h] = y[h]

Rank(S, x) == Cardinality({ y \in S : Before(y, x) }) + 1

AllForward(c) == ForwardTargets(c, TRUE) \cup ForwardTargets(c, FALSE)

AllReverse(candidates, name) ==
    ReverseSources(candidates, name, TRUE) \cup ReverseSources(candidates, name, FALSE)

\* C12: the dependency list of every registered Task is its declared forward
\* dependencies in declaration order, followed by the injected ones in the
\* order the first pass met them; no injected dependency precedes a declared
\* one.
C12_DeclaredThenInjected ==
    \A n \in 1..Len(tasks) :
        LET candidates == project_module.candidates
            c == candidates[TaskPosition(n)]
            deps == tasks[n].dependencies
            F == AllForward(c)
            I == AllReverse(candidates, tasks[n].name)
        IN  /\ Len(deps) = Cardinality(F) + Cardinality(I)
            /\ \A km \in F :
                   deps[Rank(F, km)].depends_on = c.depends[km[1]].targets[km[2]]
            /\ \A ikm \in I :
                   deps[Cardinality(F) + Rank(I, ikm)].depends_on
                       = RefTarget(candidates[ikm[1]])

\* a task with two declared dependencies and injected ones from two producers
C12_Witness ==
    /\ ncollects > 0
    /\ \E n \in 1..Len(tasks) :
          LET candidates == project_module.candidates
              c == candidates[TaskPosition(n)]
              I == AllReverse(candidates, tasks[n].name)
          IN  /\ Cardinality(AllForward(c)) >= 2
              /\ \E x, y \in I :
                    RefTarget(candidates[x[1]]) # RefTarget(candidates[y[1]])

\* C13: a module that imports and has no pyb_version, or an empty one, is
\* returned whatever the version of the host; one whose requirement does not
\* contain the host's version raises IncompatiblePluginException, never
\* MissingPluginException; a module that cannot be imported raises
\* MissingPluginException.
C13_VersionGate ==
    (gate # NoGate /\ gate.outcome # Pending) =>
        /\ (~gate.import_error /\ gate.pyb_version \in {NoAttribute, EmptyRequirement})
               => gate.outcome = Returned(gate.module)
        /\ (/\ ~gate.import_error
            /\ gate.pyb_version \notin {NoAttribute, EmptyRequirement}
            /\ ~Contains(gate.pyb_version, gate.version))
               => /\ gate.outcome.kind = "raise"
                  /\ gate.outcome.exc.type = "IncompatiblePluginException"
        /\ gate.import_error
               => /\ gate.outcome.kind = "raise"
                  /\ gate.outcome.exc.type = "MissingPluginException"

\* a module that imports, requires a version above the host's, and is refused
C13_Witness ==
    /\ gate # NoGate
    /\ ~gate.import_error
    /\ gate.pyb_version = Specifier(">=", 2)
    /\ gate.version = 1
    /\ gate.outcome.kind = "raise"

\* a module with an empty pyb_version, loaded
C13_WitnessEmpty ==
    /\ gate # NoGate
    /\ ~gate.import_error
    /\ gate.pyb_version = EmptyRequirement
    /\ gate.outcome = Returned(gate.module)

NoDuplicates(registry) ==
    \A j, k \in 1..Len(registry) : registry[j] = registry[k] => j = k

Without(registry, k) ==
    SubSeq(registry, 1, k - 1) \o SubSeq(registry, k + 1, Len(registry))

\* a step of require_plugin that registers an identifier not yet registered
Registers ==
    /\ ncalls' = ncalls + 1
    /\ \E plugin \in Identifiers :
          /\ plugin \notin Range(plugins)
          /\ plugins' = Append(plugins, plugin)

\* the step that ends the call in progress with an error and takes the
\* identifier that call added, and nothing else, out of the registry
RollsBack ==
    /\ stack # <<>>
    /\ last'.plugin = Top.plugin
    /\ last'.outcome # NoException
    /\ \E k \in 1..Len(plugins) :
          /\ plugins[k] = Top.plugin
          /\ plugins' = Without(plugins, k)

\* C14: in every state, calls in progress and failed calls included, no
\* identifier is in the registry twice; and the registry changes only when
\* require_plugin appends an identifier at the end or, failing, removes the
\* identifier it had added.
C14_RegistryDiscipline ==
    /\ []NoDuplicates(plugins)
    /\ [][plugins' # plugins => (Registers \/ RollsBack)]_vars

\* a call in progress with two identifiers registered, after a call that
\* failed and was rolled back from under an identifier a nested call kept
C14_Witness ==
    /\ stack # <<>>
    /\ Len(plugins) >= 2
    /\ Raising
    /\ Len(last.post) > Len(last.pre)

\* the calls whose loader chain can be looked at: those in progress and the
\* one that completed last
Calls ==
    Range(stack) \cup (IF Completed /\ ~last.noop THEN {last} ELSE {})

\* _install_external_plugin was called: pip was run, or the Downloading
\* loader has ended
InstallerInvoked(x) ==
    \/ x.installs # <<>>
    \/ \E k \in 1..Len(x.invoked) : x.invoked[k].loader = "DownloadingPluginLoader"

\* C15: with the default chain, the installer is invoked for an identifier
\* only after the Builtin loader and then the ThirdParty loader, asked for
\* that identifier, have both raised MissingPluginException; when one of the
\* two returns a module or raises IncompatiblePluginException, the installer
\* is not invoked.
C15_InstallerLast ==
    \A x \in Calls :
        /\ InstallerInvoked(x) =>
              /\ Len(x.invoked) >= 2
              /\ x.invoked[1].loader = "BuiltinPluginLoader"
              /\ IsMissing(x.invoked[1].result)
              /\ x.invoked[2].loader = "ThirdPartyPluginLoader"
              /\ IsMissing(x.invoked[2].result)
        /\ \A k \in 1..Len(x.invoked) :
              (/\ x.invoked[k].loader # "DownloadingPluginLoader"
               /\ \/ x.invoked[k].result.kind = "return"
                  \/ x.invoked[k].result.exc.type = "IncompatiblePluginException")
                  => ~InstallerInvoked(x)

\* pip has been run for a call in progress, the import that follows is under way
C15_Witness ==
    /\ stack # <<>>
    /\ Top.installs # <<>>
    /\ Top.pc = "import"
    /\ Len(Top.invoked) = 2

\* a call that ended with IncompatiblePluginException from the ThirdParty loader
C15_WitnessIncompatible ==
    /\ Completed
    /\ ~last.noop
    /\ Len(last.invoked) = 2
    /\ last.invoked[2].result.exc.type = "IncompatiblePluginException"

\* C16: when an acquisition begun while the build descriptor loads has
\* failed, prepare_build raises, and neither the collection of the project
\* module nor resolve_dependencies is ever called; and resolve_dependencies
\* is called only once the project module has been collected to the end.
C16_FailFast ==
    /\ build.failed =>
          /\ ~build.collect_called
          /\ ~build.resolve_called
          /\ build.pc \in {"load", "raised"}
          /\ stack = <<>> => build.pc = "raised"
    /\ build.resolve_called => (build.collect_called /\ raised = NoException)

\* the candidates a collect call registers as actions and as initializers
ActionPositions(candidates) ==
    { p \in 1..Len(candidates) :
        /\ ~candidates[p].task /\ candidates[p].action
        /\ Reached(candidates, p) }

InitializerPositions(candidates) ==
    { p \in 1..Len(candidates) :
        /\ ~candidates[p].task /\ ~candidates[p].action /\ candidates[p].initializer
        /\ Reached(candidates, p) }

\* registered is ncollects times the candidates at the positions S, in order
RegisteredFrom(registered, S) ==
    /\ Len(registered) = ncollects * Cardinality(S)
    /\ \A n \in 1..Len(registered) :
          registered[n].callable
              = RefTarget(project_module.candidates[
                    NthOf(S, ((n - 1) % Cardinality(S)) + 1)])

\* C17: a collect call registers a candidate at most once: as a task when
\* it carries the task marker, else as an action when it carries the action
\* marker, else as an initializer when it carries the initializer marker,
\* and not at all when it carries none.
C17_OneRolePerCandidate ==
    LET candidates == project_module.candidates
    IN  /\ RegisteredFrom(tasks, TaskPositions(candidates))
        /\ RegisteredFrom(actions, ActionPositions(candidates))
        /\ RegisteredFrom(initializers, InitializerPositions(candidates))

\* a collected module with a candidate marked as task and as action, one
\* marked as action and as initializer, and one without a marker
C17_Witness ==
    LET candidates == project_module.candidates
    IN  /\ ncollects > 0
        /\ raised = NoException
        /\ \E p \in TaskPositions(candidates) : candidates[p].action
        /\ \E p \in ActionPositions(candidates) : candidates[p].initializer
        /\ \E p \in 1..Len(candidates) : ~Marked(candidates[p])
        /\ Len(tasks) + Len(actions) + Len(initializers) = 2

\* the entries of a dependency list after the first `declared` ones that
\* point at the callable with the flag o
InjectedEntries(deps, declared, callable, o) ==
    { d \in (declared + 1)..Len(deps) : deps[d] = TaskDependency(callable, o) }

\* C18: when several producer tasks of a module name the same dependent,
\* the Task registered under that name has, after its declared dependencies,
\* one entry for every such declaration of every producer, pointing at that
\* producer with the flag of that declaration: none replaces another.
C18_AllProducersKept ==
    \A n \in 1..Len(tasks) :
        LET candidates == project_module.candidates
            c == candidates[TaskPosition(n)]
            declared == Cardinality(AllForward(c))
        IN  \A i \in 1..Len(candidates) : \A o \in BOOLEAN :
                Cardinality(InjectedEntries(tasks[n].dependencies, declared,
                                            RefTarget(candidates[i]), o))
                    = Cardinality({ ikm \in ReverseSources(candidates, tasks[n].name, o) :
                                      RefTarget(candidates[ikm[1]]) = RefTarget(candidates[i]) })

\* a task named by two producers, one with an optional wrapper and one
\* without, and carrying an entry for each
C18_Witness ==
    /\ ncollects > 0
    /\ \E n \in 1..Len(tasks) :
          LET candidates == project_module.candidates
              c == candidates[TaskPosition(n)]
              declared == Cardinality(AllForward(c))
          IN  \E i, j \in 1..Len(candidates) :
                /\ RefTarget(candidates[i]) # RefTarget(candidates[j])
                /\ InjectedEntries(tasks[n].dependencies, declared,
                                   RefTarget(candidates[i]), TRUE) # {}
                /\ InjectedEntries(tasks[n].dependencies, declared,
                                   RefTarget(candidates[j]), FALSE) # {}

\* the module has a task named name and a task whose callable is callable
SameModule(module, name, callable) ==
    /\ \E p \in 1..Len(module.candidates) :
          module.candidates[p].task /\ KeyedTo(RefTarget(module.candidates[p]), name)
    /\ \E p \in 1..Len(module.candidates) :
          module.candidates[p].task /\ RefTarget(module.candidates[p]) = callable

\* C19: a dependents entry naming no task of the module being collected adds
\* no dependency and raises nothing, also when a task of that name is
\* registered by an earlier or a later collect call on another module: a
\* registered Task depends only on tasks of its own module, and a call that
\* collects a module whose candidates are all accepted returns normally.
C19_UnmatchedDependentsDiscarded ==
    /\ \A n \in 1..Len(tasks) : \A d \in 1..Len(tasks[n].dependencies) :
          \E module \in PluginModules :
              SameModule(module, tasks[n].name, tasks[n].dependencies[d].depends_on)
    /\ (/\ Completed
        /\ ~last.noop
        /\ Len(last.invoked) > 0
        /\ FinalResult(last.invoked).kind = "return"
        /\ \A p \in 1..Len(last.module.candidates) : last.module.candidates[p].valid)
           => last.outcome = NoException

\* package, which names compile as its dependent, was collected by an
\* earlier call than compile, which names package; both are registered and
\* the last call returned
C19_Witness ==
    /\ Completed
    /\ ~last.noop
    /\ last.outcome = NoException
    /\ \E j, k \in 1..Len(tasks) :
          /\ j < k
          /\ tasks[j].name = "package"
          /\ tasks[k].name = "compile"
          /\ last.post_em.tasks = tasks

InProgress == { stack[k].plugin : k \in 1..Len(stack) }

EveryCallCompletes == (stack # <<>>) ~> (stack = <<>>)

StepsLeft(f) ==
    CASE f.pc = "collect" -> 1
      [] f.pc = "load"    -> 2 * (Len(Loaders) + 2 - f.idx)
      [] f.pc = "import"  -> 2 * (Len(Loaders) + 2 - f.idx) - 1

RECURSIVE TotalStepsLeft(_, _)
TotalStepsLeft(s, k) ==
    IF k > Len(s) THEN 0 ELSE StepsLeft(s[k]) + TotalStepsLeft(s, k + 1)

CallFails ==
    /\ stack # <<>>
    /\ Len(stack') < Len(stack)
    /\ last'.outcome # NoException

\* C21: when a call fails after nested calls, made while its plugin was
\* being loaded, have registered other identifiers, the rollback takes the
\* failing identifier, and only it, out of the registry: the identifiers the
\* nested calls kept are still there, and all that remain are in the order
\* they were in.
C21_OnlyFailingRemoved ==
    [][CallFails =>
          /\ \E k \in 1..Len(plugins) :
                /\ plugins[k] = Top.plugin
                /\ plugins' = Without(plugins, k)
          /\ Top.plugin \notin Range(plugins')
          /\ Top.nested \subseteq Range(plugins')
          /\ Len(plugins') = Len(Top.pre) + Cardinality(Top.nested)]_vars

\* a call that failed after two nested calls had each registered an
\* identifier: both are in the registry, behind what was there before
C21_Witness ==
    /\ Raising
    /\ Cardinality(last.nested) = 2
    /\ last.nested \subseteq Range(plugins)
    /\ last.plugin \notin Range(plugins)
    /\ Len(plugins) = Len(last.pre) + 2

=============================================================================
